---- MODULE Spec2Model ----
(***************************************************************************)
(* Model of the agent runner (createAgent with wrapToolWithTracing,        *)
(* safeTraceOperation and ensureTraceFlushed) and of the content           *)
(* orchestrator (orchestrateAgents).  The generation engine, the tools'    *)
(* business logic and the trace backend are external: each of their        *)
(* outcomes is a nondeterministic choice.                                  *)
(***************************************************************************)
EXTENDS Integers, Sequences, FiniteSets, TLC

(* ---------------------------- bounds ---------------------------------- *)
\* largest options.maxSteps a caller configures (0 stands for "not set")
MaxStepsOpt == 2
\* tool calls the model may request in one step (parallel calling)
MaxParallel == 2
\* tool calls the model requests in one run
MaxCalls == 2
\* text chunks one generation produces
MaxChunks == 2

(* --------------------------- constants -------------------------------- *)
\* maxSteps: options.maxSteps || 3
DefaultMaxSteps == 3
\* const { maxSteps = 5 } = config
DefaultStreamMaxSteps == 5
\* maxSteps: config.maxSteps ?? 3
DefaultAdapterMaxSteps == 3

\* the value undefined where an object is expected
Undefined == [undefined |-> TRUE]

\* undefined where a trace client, or an error, is expected
NoTrace == "none"
NoError == "none"

Tools == {"getWeather"}

\* An argument object is the sequence of its <<key, value>> pairs in
\* insertion order; two objects with the same pairs in another order are
\* the same value for the tool but not for JSON.stringify.
ArgObjects ==
  { << <<"location", "SF">>, <<"unit", "C">> >>,
    << <<"unit", "C">>, <<"location", "SF">> >>,
    << <<"location", "NY">>, <<"unit", "C">> >> }

Range(s) == { s[i] : i \in 1..Len(s) }

\* the value of an argument object, whatever the order of its keys
ArgValue(args) == Range(args)

RECURSIVE Flatten(_)
Flatten(pairs) ==
  IF pairs = <<>> THEN <<>>
  ELSE <<pairs[1][1], pairs[1][2]>> \o Flatten(Tail(pairs))

\* JSON.stringify({ toolName, args }): the members in insertion order
cacheKey(toolName, args) ==
  <<"toolName", toolName, "args">> \o Flatten(args)

\* JSON.parse(key).toolName
KeyToolName(key) == key[2]

\* what the underlying execute returns on its n-th invocation of the run
ToolValue(toolName, args, n) ==
  [tool |-> toolName, value |-> ArgValue(args), n |-> n]

\* outcomes of one call to the trace backend: TRUE = it throws
Fails(mode) ==
  CASE mode = "ok" -> {FALSE}
    [] mode = "throws" -> {TRUE}
    [] OTHER -> BOOLEAN

\* how many of n consecutive backend calls are recorded before one throws
\* (n = none throws)
Recorded(n, mode) ==
  CASE mode = "ok" -> {n}
    [] mode = "throws" -> {0}
    [] OTHER -> 0..n

\* safeTraceOperation: the operation's value, or defaultValue when it threw
safeTraceOperation(threw, value, defaultValue) ==
  IF threw THEN defaultValue ELSE value

(* ----------------------------- state ---------------------------------- *)
VARIABLES
  config,          \* AgentConfig: langfuse, trace, createNewTrace
  isServerless,    \* AgentConfig.isServerless, drawn where agent() reads it
  options,         \* AgentOptions: maxSteps, requireStructuredOutput
  backend,         \* behaviour of the trace backend: ok, throws, flaky
  pc,              \* position of the agent() call
  trace,           \* the local variable trace: none, supplied, new
  toolResultCache, \* Map cacheKey -> result
  stepNo,          \* model round-trips started by generateText
  calls,           \* every tool call of the run, in request order
  traceLog,        \* tool-execution and error spans the backend has created
  result,          \* generateText's result: text and the last step's toolCalls
  response,        \* what agent() returns
  outcome,         \* none, returned, threw
  error,           \* the error agent() rejects with
  flushes,         \* flush attempts made by ensureTraceFlushed
  opc,             \* position of orchestrateAgents
  route,           \* the routing decision
  oresult,         \* the OrchestrationResult under construction
  invoked,         \* stages invoked so far, in order
  prompts,         \* the prompt handed to each invoked stage
  stageOut,        \* tool results of the stage in flight
  routerOut,       \* what the router stage's toolResults resolved to
  oerror,          \* the failure orchestrateAgents rejects with
  olog,            \* what happened to the stages, in order
  sconfig,         \* createStreamingAgent's config: langfuse, maxSteps
  spc,             \* position of the streaming agent call
  strace,          \* the local constant trace of the streaming agent call
  sgen,            \* how the try block of the streaming agent call ended
  sresult,         \* the value the streaming agent call resolves with
  soutcome,        \* none, resolved, rejected
  serror,          \* the error the streaming agent call rejects with
  sflushes,        \* calls of langfuse.flushAsync made by the call
  sstream,         \* progress of the stream that streamText returned
  stext,           \* the text chunks the stream has produced, in order
  sfail,           \* the error the stream failed with while being read
  scancel,         \* the caller has triggered its cancellation signal
  rpc,             \* position of agent.run
  rwritten,        \* the chunks agent.run has written to stdout, in order
  rreturn,         \* the value agent.run resolves with
  rerror,          \* the error agent.run rejects with
  aconfig,         \* the streaming adapter's config: maxSteps; how onError's dataStream resolves
  apc,             \* position of the adapter's generation
  astep,           \* model round-trips the adapter's generation has started
  atools,          \* the tool invocations of the adapter's run
  apending,        \* parts of the generation not yet merged into the data stream
  alog,            \* chunks written to the data stream and tool events, in order
  pruns,           \* two createAgent runs: state and toolResultCache of each
  pcalls           \* the wrapped tool calls of the two runs, in call order

agentVars == <<config, isServerless, options, backend, pc, trace, toolResultCache, stepNo,
               calls, traceLog, result, response, outcome, error, flushes>>
orchVars == <<opc, route, oresult, invoked, prompts, stageOut, routerOut, oerror, olog>>
streamVars == <<sconfig, spc, strace, sgen, sresult, soutcome, serror, sflushes, sstream>>
runVars == <<stext, sfail, scancel, rpc, rwritten, rreturn, rerror>>
adapterVars == <<aconfig, apc, astep, atools, apending, alog>>
pairVars == <<pruns, pcalls>>
laterVars == <<runVars, adapterVars, pairVars>>
vars == <<agentVars, orchVars, streamVars, laterVars>>

(* ------------------------ createAgent: helpers ------------------------ *)
\* maxSteps: options.maxSteps || 3
Budget == IF options.maxSteps = 0 THEN DefaultMaxSteps ELSE options.maxSteps

\* if (config.langfuse && (!trace || config.createNewTrace))
CreatesTrace == config.langfuse /\ (~config.trace \/ config.createNewTrace)

\* options.tools && trace ? <wrapped tools> : options.tools
ToolsWrapped == trace # NoTrace

\* toolChoice: wrappedTools ? (requireStructuredOutput ? 'required' : 'auto') : 'none'
ToolChoice == IF options.requireStructuredOutput THEN "required" ELSE "auto"

\* toolResultCache.has(cacheKey)
CacheHas(key) == key \in DOMAIN toolResultCache

\* toolResultCache.get(cacheKey)
CacheGet(key) == IF key \in DOMAIN toolResultCache THEN toolResultCache[key] ELSE Undefined

\* toolResultCache.set(cacheKey, result)
CacheSet(key, value) ==
  [k \in DOMAIN toolResultCache \cup {key} |->
     IF k = key THEN value ELSE toolResultCache[k]]

\* if (config.isServerless || (config.createNewTrace && config.langfuse))
FlushDue(serverless) == serverless \/ (config.createNewTrace /\ config.langfuse)

Pending(i) == calls[i].st = "pending"
Running(i) == calls[i].st = "running"
Settled(i) == calls[i].st = "done"
AllSettled == \A i \in 1..Len(calls) : Settled(i)

\* the engine starts the tool calls of a step together (Promise.all over the
\* step's calls): every call of the step has been started before the
\* execute of any of them settles
AllStarted == \A i \in 1..Len(calls) : ~Pending(i)

\* number of invocations of the tools' underlying execute so far
Executions == Cardinality({ i \in 1..Len(calls) : calls[i].executed })

\* the tool calls of the step that ended the generation (result.toolCalls),
\* as indices into calls
LastStepCalls ==
  SelectSeq([i \in 1..Len(calls) |-> i], LAMBDA i : calls[i].step = stepNo)

Entry(kind, name, call) == [kind |-> kind, name |-> name, call |-> call]

\* traceLog keeps the spans the backend created for tool executions and for
\* a failed run; the generations, updates and the completion records that
\* reuse a span's id are sent but not kept
Kept(entries) ==
  SelectSeq(entries, LAMBDA e : e.kind = "span" /\ e.name \in {"tool-execution", "agent-error"})

Record(entries) == traceLog \o Kept(entries)

NewCall(toolName, args, step) ==
  [tool |-> toolName, args |-> args, step |-> step, st |-> "pending",
   wrapped |-> FALSE, hit |-> FALSE, executed |-> FALSE, n |-> 0,
   threw |-> FALSE, rejected |-> FALSE, res |-> Undefined]

CallRequests == { <<t, a>> : t \in Tools, a \in ArgObjects }

RequestSeqs(len) == [1..len -> CallRequests]

(* ------------------------ createAgent: actions ------------------------ *)
\* agent(): trace creation (config.langfuse.trace under safeTraceOperation)
CreateTrace ==
  /\ pc = "start"
  /\ IF CreatesTrace
       THEN \E threw \in Fails(backend) :
              LET newTrace == safeTraceOperation(threw, "new", NoTrace)
              IN /\ trace' = IF newTrace # NoTrace THEN newTrace ELSE trace
                 /\ traceLog' = Record(SubSeq(<<Entry("trace", "agent-trace", 0)>>,
                                                1, IF threw THEN 0 ELSE 1))
       ELSE UNCHANGED <<trace, traceLog>>
  /\ pc' = "spans"
  /\ UNCHANGED <<config, isServerless, options, backend, toolResultCache, stepNo, calls,
                 result, response, outcome, error, flushes, orchVars, streamVars, laterVars>>

\* agent(): the initial-prompt generation and the main execution span,
\* both inside one safeTraceOperation
MainSpan ==
  /\ pc = "spans"
  /\ IF trace # NoTrace
       THEN \E k \in Recorded(2, backend) :
              traceLog' = Record(SubSeq(<<Entry("generation", "initial-prompt", 0),
                                           Entry("span", "agent-execution", 0)>>, 1, k))
       ELSE traceLog' = traceLog
  /\ pc' = "gen"
  /\ UNCHANGED <<config, isServerless, options, backend, trace, toolResultCache, stepNo, calls,
                 result, response, outcome, error, flushes, orchVars, streamVars, laterVars>>

\* generateText: one model round-trip that requests tool calls
ModelStep ==
  /\ pc = "gen"
  /\ AllSettled
  /\ stepNo < Budget
  /\ \E len \in 1..MaxParallel :
       /\ Len(calls) + len <= MaxCalls
       /\ \E reqs \in RequestSeqs(len) :
            calls' = calls \o [i \in 1..len |->
                                 NewCall(reqs[i][1], reqs[i][2], stepNo + 1)]
  /\ stepNo' = stepNo + 1
  /\ UNCHANGED <<config, isServerless, options, backend, pc, trace, toolResultCache, traceLog,
                 result, response, outcome, error, flushes, orchVars, streamVars, laterVars>>

\* generateText: a model round-trip that answers with text and no tool call
\* (not possible under toolChoice 'required'); generation is complete
ModelFinal ==
  /\ pc = "gen"
  /\ AllSettled
  /\ stepNo < Budget
  /\ ToolChoice = "auto"
  /\ stepNo' = stepNo + 1
  /\ result' = [text |-> "answer", toolCalls |-> <<>>]
  /\ pc' = "post"
  /\ UNCHANGED <<config, isServerless, options, backend, trace, toolResultCache, calls, traceLog,
                 response, outcome, error, flushes, orchVars, streamVars, laterVars>>

\* generateText: the step budget is used up after a step with tool calls
BudgetReached ==
  /\ pc = "gen"
  /\ AllSettled
  /\ stepNo = Budget
  /\ result' = [text |-> "", toolCalls |-> LastStepCalls]
  /\ pc' = "post"
  /\ UNCHANGED <<config, isServerless, options, backend, trace, toolResultCache, stepNo, calls,
                 traceLog, response, outcome, error, flushes, orchVars, streamVars, laterVars>>

\* generateText: the model provider fails during a round-trip
GenerationError ==
  /\ pc = "gen"
  /\ AllSettled
  /\ stepNo < Budget
  /\ error' = "generation"
  /\ pc' = "catch"
  /\ UNCHANGED <<config, isServerless, options, backend, trace, toolResultCache, stepNo, calls,
                 traceLog, result, response, outcome, flushes, orchVars, streamVars, laterVars>>

\* the engine calls tools[name].execute(args) for call i: with tracing this
\* is wrapToolWithTracing's execute up to its first suspension (cache check,
\* start span and the invocation of the underlying execute, which all sit
\* inside one safeTraceOperation); without tracing it is the tool's own execute
ToolExecute(i) ==
  /\ pc = "gen"
  /\ i \in 1..Len(calls)
  /\ Pending(i)
  /\ \A j \in 1..(i - 1) : ~Pending(j)
  /\ LET c == calls[i]
         key == cacheKey(c.tool, c.args)
     IN IF ToolsWrapped
          THEN IF CacheHas(key)
                 THEN /\ calls' = [calls EXCEPT ![i] =
                            [c EXCEPT !.st = "done", !.wrapped = TRUE, !.hit = TRUE,
                                      !.res = CacheGet(key)]]
                      /\ traceLog' = traceLog
                 ELSE \E k \in Recorded(1, backend) :
                        IF k = 0
                          THEN /\ calls' = [calls EXCEPT ![i] =
                                     [c EXCEPT !.st = "done", !.wrapped = TRUE,
                                               !.res = safeTraceOperation(TRUE, Undefined, Undefined)]]
                               /\ traceLog' = traceLog
                          ELSE /\ calls' = [calls EXCEPT ![i] =
                                     [c EXCEPT !.st = "running", !.wrapped = TRUE,
                                               !.executed = TRUE, !.n = Executions + 1]]
                               /\ traceLog' = Record(<<Entry("span", "tool-execution", i)>>)
          ELSE /\ calls' = [calls EXCEPT ![i] =
                     [c EXCEPT !.st = "running", !.executed = TRUE,
                               !.n = Executions + 1]]
               /\ traceLog' = traceLog
  /\ UNCHANGED <<config, isServerless, options, backend, pc, trace, toolResultCache, stepNo,
                 result, response, outcome, error, flushes, orchVars, streamVars, laterVars>>

\* the underlying execute of call i returns: the wrapper stores the result in
\* the cache, records the completion span (a throw there lands in the catch
\* block, which records an error span and rethrows into safeTraceOperation)
\* and returns the result
ToolReturns(i) ==
  /\ pc = "gen"
  /\ i \in 1..Len(calls)
  /\ Running(i)
  /\ AllStarted
  /\ LET c == calls[i]
         key == cacheKey(c.tool, c.args)
         value == ToolValue(c.tool, c.args, c.n)
     IN /\ calls' = [calls EXCEPT ![i] = [c EXCEPT !.st = "done", !.res = value]]
        /\ IF c.wrapped
             THEN /\ toolResultCache' = CacheSet(key, value)
                  /\ \E k \in Recorded(1, backend) :
                       IF k = 1
                         THEN traceLog' = Record(<<Entry("span", "tool-execution-complete", i)>>)
                         ELSE \E k2 \in Recorded(1, backend) :
                                traceLog' = Record(SubSeq(
                                  <<Entry("span", "tool-execution-error", i)>>, 1, k2))
             ELSE UNCHANGED <<toolResultCache, traceLog>>
  /\ UNCHANGED <<config, isServerless, options, backend, pc, trace, stepNo,
                 result, response, outcome, error, flushes, orchVars, streamVars, laterVars>>

\* the underlying execute of call i throws: the wrapper records an error span
\* and rethrows, safeTraceOperation catches the rethrown error, and the
\* wrapper returns its unassigned result; an unwrapped tool rejects towards
\* generateText, which throws a ToolExecutionError
ToolThrows(i) ==
  /\ pc = "gen"
  /\ i \in 1..Len(calls)
  /\ Running(i)
  /\ AllStarted
  /\ LET c == calls[i]
     IN IF c.wrapped
          THEN /\ calls' = [calls EXCEPT ![i] =
                     [c EXCEPT !.st = "done", !.threw = TRUE,
                               !.res = safeTraceOperation(TRUE, Undefined, Undefined)]]
               /\ \E k \in Recorded(1, backend) :
                    traceLog' = Record(SubSeq(
                      <<Entry("span", "tool-execution-error", i)>>, 1, k))
               /\ UNCHANGED <<pc, error>>
          ELSE /\ calls' = [calls EXCEPT ![i] =
                     [c EXCEPT !.st = "done", !.threw = TRUE, !.rejected = TRUE]]
               /\ traceLog' = traceLog
               /\ pc' = "catch"
               /\ error' = "tool"
  /\ UNCHANGED <<config, isServerless, options, backend, trace, toolResultCache, stepNo,
                 result, response, outcome, flushes, orchVars, streamVars, laterVars>>

\* the trace calls made after generateText returned, none of them guarded:
\* per tool call of the result a generation and a span, and when the cache
\* holds a result for the call an update of the generation and an end of the
\* span
RECURSIVE ToolCallLogOps(_)
ToolCallLogOps(idx) ==
  IF idx = <<>> THEN <<>>
  ELSE LET i == Head(idx)
           toolResult == CacheGet(cacheKey(calls[i].tool, calls[i].args))
       IN <<Entry("generation", "tool-call", i), Entry("span", "tool-execution", i)>>
          \o (IF toolResult # Undefined
                THEN <<Entry("update", "tool-call", i), Entry("end", "tool-execution", i)>>
                ELSE <<>>)
          \o ToolCallLogOps(Tail(idx))

\* ... followed by the final-response generation and the update of the trace
PostGenOps ==
  IF trace # NoTrace
    THEN ToolCallLogOps(result.toolCalls)
         \o <<Entry("generation", "final-response", 0), Entry("update", "trace", 0)>>
    ELSE <<>>

ToolCallView(i) == [toolName |-> calls[i].tool, args |-> calls[i].args]

\* the value of structuredOutput is a string in one program and an object in
\* another: a value is kept with its JavaScript type
JsString(text) == [string |-> text]
JsObject(args) == [object |-> ArgValue(args)]

\* the response built from generateText's result and a tool result cache
FormatResponse(res, cache) ==
  IF options.requireStructuredOutput
    THEN [toolCalls |-> [j \in 1..Len(res.toolCalls) |-> ToolCallView(res.toolCalls[j])],
          structuredOutput |-> JsString(res.text)]
    ELSE [messages |-> <<[role |-> "assistant",
            content |-> <<[type |-> "text", text |-> res.text]>> \o
              [j \in 1..Len(res.toolCalls) |->
                 LET i == res.toolCalls[j]
                     key == cacheKey(calls[i].tool, calls[i].args)
                 IN [type |-> "tool_call", toolName |-> calls[i].tool,
                     args |-> calls[i].args,
                     toolResults |-> IF key \in DOMAIN cache THEN cache[key]
                                     ELSE Undefined]]]>>]

\* agent(): everything between generateText's return and "return response"
\* (no suspension in between); a throwing trace call goes to the catch block
PostGen ==
  /\ pc = "post"
  /\ \E k \in Recorded(Len(PostGenOps), backend) :
       /\ traceLog' = Record(SubSeq(PostGenOps, 1, k))
       /\ IF k = Len(PostGenOps)
            THEN /\ response' = FormatResponse(result, toolResultCache)
                 /\ outcome' = "returned"
                 /\ pc' = "finally"
                 /\ error' = error
            ELSE /\ error' = "trace"
                 /\ pc' = "catch"
                 /\ UNCHANGED <<response, outcome>>
  /\ UNCHANGED <<config, isServerless, options, backend, trace, toolResultCache, stepNo, calls,
                 result, flushes, orchVars, streamVars, laterVars>>

\* a catch block whose error span is not guarded: a throwing backend
\* replaces the caught error
CatchUnguarded ==
  /\ pc = "catch"
  /\ IF trace # NoTrace
       THEN \E k \in Recorded(1, backend) :
              /\ traceLog' = Record(SubSeq(<<Entry("span", "agent-error", 0)>>, 1, k))
              /\ error' = IF k = 0 THEN "trace" ELSE error
       ELSE traceLog' = traceLog /\ error' = error
  /\ outcome' = "threw"
  /\ pc' = "finally"
  /\ UNCHANGED <<config, isServerless, options, backend, trace, toolResultCache, stepNo, calls,
                 result, response, flushes, orchVars, streamVars, laterVars>>

\* agent(): the catch block records an error span under safeTraceOperation
\* and rethrows
Catch ==
  /\ pc = "catch"
  /\ IF trace # NoTrace
       THEN \E k \in Recorded(1, backend) :
              traceLog' = Record(SubSeq(<<Entry("span", "agent-error", 0)>>, 1, k))
       ELSE traceLog' = traceLog
  /\ outcome' = "threw"
  /\ pc' = "finally"
  /\ UNCHANGED <<config, isServerless, options, backend, trace, toolResultCache, stepNo, calls,
                 result, response, error, flushes, orchVars, streamVars, laterVars>>

\* ensureTraceFlushed(langfuse, trace): the flush attempts it makes; the
\* trace client is flushed only when it has a flushAsync method
ensureTraceFlushed(langfuse, tr, traceHasFlush) ==
  IF ~langfuse /\ tr = NoTrace THEN <<>>
  ELSE (IF langfuse THEN <<"langfuse">> ELSE <<>>)
       \o (IF tr # NoTrace /\ traceHasFlush THEN <<"trace">> ELSE <<>>)

\* agent(): the finally block; the promise settles after it
Finally ==
  /\ pc = "finally"
  /\ \E serverless \in BOOLEAN :
       /\ isServerless' = IF serverless THEN "yes" ELSE "no"
       /\ IF FlushDue(serverless)
            THEN \E traceHasFlush \in BOOLEAN :
                   flushes' = flushes \o
                     ensureTraceFlushed(config.langfuse, trace, traceHasFlush)
            ELSE flushes' = flushes
  /\ pc' = "done"
  /\ UNCHANGED <<config, options, backend, trace, toolResultCache, stepNo, calls,
                 traceLog, result, response, outcome, error, orchVars, streamVars, laterVars>>

(* ------------------------- orchestrateAgents -------------------------- *)
\* a scalar that is undefined (a missing property read as a string)
UndefinedStr == "undefined"
Null == [null |-> TRUE]

userInput == "Create a LinkedIn post about AI trends"

\* obj?.field where the property holds a string: undefined when the property
\* is missing or obj itself is undefined or null
Get(obj, field) ==
  IF obj = Undefined \/ obj = Null THEN UndefinedStr
  ELSE IF field \in DOMAIN obj THEN obj[field] ELSE UndefinedStr

\* obj.field where the property holds an object
GetObj(obj, field) ==
  IF field \in DOMAIN obj THEN obj[field] ELSE Undefined

\* JavaScript falsiness, of an object and of a string
Falsy(x) == x = Undefined \/ x = Null
FalsyStr(x) == x = UndefinedStr \/ x = ""

\* what a stage's toolResults promise resolves to: undefined, or an array of
\* entries, each with or without a result
NoArray == [defined |-> FALSE, items |-> <<>>]
Array(items) == [defined |-> TRUE, items |-> items]

\* toolResults?.[0]?.result
FirstResult(toolResults) ==
  IF toolResults.defined /\ Len(toolResults.items) >= 1
    THEN toolResults.items[1].result
    ELSE Undefined

RouteObjects ==
  [action : {"create_content", "create_strategy", "manage_content", "archive_content"},
   platform : {"linkedin", "blog"}]
  \cup [platform : {"linkedin", "blog"}]

RouterOutputs ==
  {NoArray, Array(<<>>), Array(<<[result |-> Undefined]>>), Array(<<[result |-> Null]>>)}
  \cup { Array(<<[result |-> r]>>) : r \in RouteObjects }

ResearchOutputs ==
  {NoArray, Array(<<>>), Array(<<[result |-> [references |-> "refs"]]>>)}

StrategyOutputs ==
  {Array(<<>>), Array(<<[result |-> Undefined]>>)}
  \cup { Array(<<[result |-> r]>>) :
           r \in [tone : {"casual", "professional", ""}] \cup [audience : {"developers"}] }

FormatterOutputs ==
  {Array(<<>>),
   Array(<<[result |-> [formattedContent |-> "[POST] text", metadata |-> "meta"]]>>),
   Array(<<[result |-> [formattedContent |-> "[POST] text"]]>>)}

PublisherOutputs ==
  {Array(<<>>), Array(<<[result |-> [id |-> "doc_1", status |-> "published"]]>>)}

Outputs(stage) ==
  CASE stage = "router" -> RouterOutputs
    [] stage = "research" -> ResearchOutputs
    [] stage = "strategy" -> StrategyOutputs
    [] stage = "formatter" -> FormatterOutputs
    [] stage = "publisher" -> PublisherOutputs

\* the errors a stage can fail with; they carry no stage name
Causes == {"provider error", "stream error"}

\* const route = routerToolResults?.[0]?.result || { action: "create_content", platform: "blog" }
DefaultRoute == [action |-> "create_content", platform |-> "blog"]
RouteOfNoDefault(routerToolResults) == FirstResult(routerToolResults)

RouteOf(routerToolResults) ==
  IF Falsy(FirstResult(routerToolResults)) THEN DefaultRoute
  ELSE FirstResult(routerToolResults)

\* JSON.stringify of an object given as <<key, value>> pairs: the members in
\* insertion order, a member whose value is undefined being left out
RECURSIVE Stringify(_)
Stringify(pairs) ==
  IF pairs = <<>> THEN <<>>
  ELSE (IF pairs[1][2] = UndefinedStr THEN <<>> ELSE <<pairs[1][1], pairs[1][2]>>)
       \o Stringify(Tail(pairs))

\* x || "professional"
OrDefault(x, default) == IF FalsyStr(x) THEN default ELSE x

\* the content of the user message handed to a stage
Prompt(stage) ==
  CASE stage = "router" -> <<userInput>>
    [] stage = "research" -> <<"Research this topic: ", userInput>>
    [] stage = "strategy" ->
         IF Get(route, "action") = "create_content"
           THEN <<"Create a strategy for ", Get(route, "platform"), " about: ", userInput>>
           ELSE <<"Create a content strategy for ", Get(route, "platform")>>
    [] stage = "formatter" ->
         Stringify(<< <<"content", userInput>>,
                      <<"platform", Get(route, "platform")>>,
                      <<"tone", OrDefault(Get(GetObj(oresult, "strategy"), "tone"),
                                          "professional")>> >>)
    [] stage = "publisher" ->
         Stringify(<< <<"content", Get(GetObj(oresult, "formattedContent"), "formattedContent")>>,
                      <<"metadata", Get(GetObj(oresult, "formattedContent"), "metadata")>>,
                      <<"platform", Get(route, "platform")>> >>)

\* a write that keeps nothing of the object but the written field
WithFieldOnly(obj, field, value) == [f \in {field} |-> value]

\* result.<field> = value
WithField(obj, field, value) ==
  [f \in DOMAIN obj \cup {field} |-> IF f = field THEN value ELSE obj[f]]

\* the field of the OrchestrationResult a stage's first tool result goes to
FieldOf(stage) ==
  CASE stage = "research" -> "references"
    [] stage = "strategy" -> "strategy"
    [] stage = "formatter" -> "formattedContent"
    [] stage = "publisher" -> "publishedContent"

\* an order of stages in which research is followed by the formatter
FollowingSkipsStrategy(stage, action) ==
  CASE stage = "research" -> "formatter"
    [] stage = "strategy" -> IF action = "create_content" THEN "formatter" ELSE "none"
    [] stage = "formatter" -> "publisher"
    [] stage = "publisher" -> "none"

\* an order of stages in which strategy is followed by the formatter
\* whatever the action
FollowingAlwaysFormats(stage, action) ==
  CASE stage = "research" -> "strategy"
    [] stage = "strategy" -> "formatter"
    [] stage = "formatter" -> "publisher"
    [] stage = "publisher" -> "none"

\* the stage that follows in the case of the switch that is running
\* ("none": the switch is left)
Following(stage, action) ==
  CASE stage = "research" -> "strategy"
    [] stage = "strategy" -> IF action = "create_content" THEN "formatter" ELSE "none"
    [] stage = "formatter" -> "publisher"
    [] stage = "publisher" -> "none"

At(stage, at) == [stage |-> stage, at |-> at]

\* one entry of olog: a stage was invoked, its text stream was drained, its
\* toolResults promise resolved, or it threw cause
Event(ev, stage, cause) == [ev |-> ev, stage |-> stage, cause |-> cause]

\* a rethrow that replaces the error by one generic failure
SurfacedGeneric(stage, cause) == "orchestration failed"

\* the error orchestrateAgents rejects with when a stage failed with cause:
\* catch (error) { console.error(...); throw error; } in the case of the
\* switch and again around the whole function
Surfaced(stage, cause) == cause

Stages == {"router", "research", "strategy", "formatter", "publisher"}

\* await <stage>Agent([{ role: "user", content, id }])
Invoke(stage) ==
  /\ opc = At(stage, "invoke")
  /\ invoked' = Append(invoked, stage)
  /\ prompts' = Append(prompts, Prompt(stage))
  /\ opc' = At(stage, "drain")
  /\ olog' = Append(olog, Event("invoked", stage, NoError))
  /\ UNCHANGED <<route, oresult, stageOut, routerOut, oerror, agentVars, streamVars, laterVars>>

\* for await (const chunk of <stage>Result.textStream)
Drain(stage) ==
  /\ opc = At(stage, "drain")
  /\ opc' = At(stage, "results")
  /\ olog' = Append(olog, Event("drained", stage, NoError))
  /\ UNCHANGED <<route, oresult, invoked, prompts, stageOut, routerOut, oerror, agentVars, streamVars, laterVars>>

\* the agent call, the text stream or the toolResults promise of the stage in
\* flight fails: the catch blocks log the error and rethrow it as it is
StageFails(stage) ==
  /\ opc.stage = stage
  /\ opc.at \in {"drain", "results"}
  /\ \E cause \in Causes :
       /\ oerror' = Surfaced(stage, cause)
       /\ olog' = Append(olog, Event("threw", stage, cause))
  /\ opc' = At("none", "failed")
  /\ UNCHANGED <<route, oresult, invoked, prompts, stageOut, routerOut, agentVars, streamVars, laterVars>>

\* await routerResult.toolResults, the choice of the route, the result
\* object and the switch on route.action
Routed ==
  /\ opc = At("router", "results")
  /\ \E out \in RouterOutputs :
       LET r == RouteOf(out)
           action == Get(r, "action")
           res == [action |-> action, platform |-> Get(r, "platform")]
       IN /\ routerOut' = out
          /\ stageOut' = out
          /\ olog' = Append(olog, Event("resolved", "router", NoError))
          /\ route' = r
          /\ CASE action = "create_content" ->
                    oresult' = res /\ opc' = At("research", "invoke")
               [] action = "create_strategy" ->
                    oresult' = res /\ opc' = At("strategy", "invoke")
               [] action = "manage_content" ->
                    /\ oresult' = WithField(res, "strategy",
                         [message |-> "Content management workflow not implemented yet"])
                    /\ opc' = At("none", "done")
               [] OTHER ->
                    oresult' = res /\ opc' = At("none", "done")
  /\ UNCHANGED <<invoked, prompts, oerror, agentVars, streamVars, laterVars>>

\* await <stage>Result.toolResults and result.<field> = toolResults?.[0]?.result
\* for the stages after the router
StageResults(stage) ==
  /\ stage \in Stages \ {"router"}
  /\ opc = At(stage, "results")
  /\ \E out \in Outputs(stage) :
       /\ stageOut' = out
       /\ oresult' = WithField(oresult, FieldOf(stage), FirstResult(out))
  /\ olog' = Append(olog, Event("resolved", stage, NoError))
  /\ opc' = LET next == Following(stage, Get(route, "action"))
            IN IF next = "none" THEN At("none", "done") ELSE At(next, "invoke")
  /\ UNCHANGED <<route, invoked, prompts, routerOut, oerror, agentVars, streamVars, laterVars>>

(* ----------------------- createStreamingAgent ------------------------ *)
\* const { maxSteps = 5 } = config
StreamBudget ==
  IF sconfig.maxSteps = 0 THEN DefaultStreamMaxSteps ELSE sconfig.maxSteps

\* the object streamText returns: the streams and promises of one generation
StreamResult == [textStream |-> "stream", toolCalls |-> "promise", toolResults |-> "promise"]

NotRun == [kind |-> "none"]
Returned(value) == [kind |-> "returned", value |-> value]
Threw(err) == [kind |-> "threw", error |-> err]

NoStream == [step |-> 0, last |-> FALSE, finished |-> FALSE, update |-> "none"]

\* const trace = langfuse?.trace({...}), before the try block: a throw
\* rejects the call at once
StreamTrace ==
  /\ spc = "start"
  /\ IF sconfig.langfuse
       THEN \E threw \in Fails(backend) :
              IF threw
                THEN /\ soutcome' = "rejected"
                     /\ serror' = "trace"
                     /\ spc' = "settled"
                     /\ strace' = strace
                ELSE /\ strace' = "new"
                     /\ spc' = "try"
                     /\ UNCHANGED <<soutcome, serror>>
       ELSE /\ spc' = "try"
            /\ UNCHANGED <<strace, soutcome, serror>>
  /\ UNCHANGED <<sconfig, sgen, sresult, sflushes, sstream, agentVars, orchVars, laterVars>>

\* try { convertToCoreMessages; const result = await streamText({...}); return result }
StreamText ==
  /\ spc = "try"
  /\ sgen' = Returned(StreamResult)
  /\ spc' = "finally"
  /\ UNCHANGED <<sconfig, strace, sresult, soutcome, serror, sflushes, sstream,
                 agentVars, orchVars, laterVars>>

\* the try block throws (message conversion or streamText): the catch block
\* logs the error and rethrows it
StreamTextThrows ==
  /\ spc = "try"
  /\ \E cause \in Causes : sgen' = Threw(cause)
  /\ spc' = "finally"
  /\ UNCHANGED <<sconfig, strace, sresult, soutcome, serror, sflushes, sstream,
                 agentVars, orchVars, laterVars>>

\* how the call settles when the finally block completes normally
Settle(gen) ==
  IF gen.kind = "returned"
    THEN /\ soutcome' = "resolved"
         /\ sresult' = gen.value
         /\ serror' = serror
    ELSE /\ soutcome' = "rejected"
         /\ serror' = gen.error
         /\ sresult' = sresult

\* finally { await langfuse?.flushAsync() }: a rejection replaces the
\* completion of the try block
StreamFinally ==
  /\ spc = "finally"
  /\ IF sconfig.langfuse
       THEN /\ sflushes' = sflushes + 1
            /\ \E rejects \in Fails(backend) :
                 IF rejects
                   THEN /\ soutcome' = "rejected"
                        /\ serror' = "flush"
                        /\ sresult' = sresult
                   ELSE Settle(sgen)
       ELSE /\ sflushes' = sflushes
            /\ Settle(sgen)
  /\ spc' = "settled"
  /\ UNCHANGED <<sconfig, strace, sgen, sstream, agentVars, orchVars, laterVars>>

\* the stream streamText returned completes a step (onStepFinish); more
\* says that the step ended with tool calls, so that another step follows
\* while the budget lasts
StreamStep ==
  /\ sgen.kind = "returned"
  /\ ~sstream.finished
  /\ sfail = NoError
  /\ ~sstream.last
  /\ sstream.step < StreamBudget
  /\ \E more \in BOOLEAN :
       sstream' = [sstream EXCEPT !.step = @ + 1, !.last = ~more]
  /\ UNCHANGED <<sconfig, spc, strace, sgen, sresult, soutcome, serror, sflushes,
                 agentVars, orchVars, laterVars>>

\* the stream ends (onFinish): trace?.update({ output })
StreamFinish ==
  /\ sgen.kind = "returned"
  /\ ~sstream.finished
  /\ sfail = NoError
  /\ sstream.last \/ sstream.step = StreamBudget
  /\ IF strace # NoTrace
       THEN \E threw \in Fails(backend) :
              sstream' = [sstream EXCEPT !.finished = TRUE,
                                         !.update = IF threw THEN "threw" ELSE "sent"]
       ELSE sstream' = [sstream EXCEPT !.finished = TRUE]
  /\ UNCHANGED <<sconfig, spc, strace, sgen, sresult, soutcome, serror, sflushes,
                 agentVars, orchVars, laterVars>>

(* --------------------- streaming agent: agent.run --------------------- *)
\* response.toolCalls and response.toolResults: those of the last step
StreamToolCalls ==
  IF sstream.last \/ sstream.step = 0 THEN <<>>
  ELSE <<[toolName |-> "getWeather", step |-> sstream.step]>>

StreamToolResults ==
  IF sstream.last \/ sstream.step = 0 THEN <<>>
  ELSE <<[toolName |-> "getWeather", step |-> sstream.step, result |-> "weather"]>>

\* the stream produces a text chunk
StreamTextPart ==
  /\ sgen.kind = "returned"
  /\ ~sstream.finished
  /\ sfail = NoError
  /\ Len(stext) < MaxChunks
  /\ stext' = Append(stext, [step |-> sstream.step, n |-> Len(stext) + 1])
  /\ UNCHANGED <<sfail, scancel, rpc, rwritten, rreturn, rerror,
                 agentVars, orchVars, streamVars, adapterVars, pairVars>>

\* the stream fails while it is being produced (an error of the provider)
StreamFails ==
  /\ sgen.kind = "returned"
  /\ ~sstream.finished
  /\ sfail = NoError
  /\ sfail' = "provider"
  /\ UNCHANGED <<stext, scancel, rpc, rwritten, rreturn, rerror,
                 agentVars, orchVars, streamVars, adapterVars, pairVars>>

\* the caller of the agent triggers its cancellation signal; the agent call
\* takes the messages only and no option of streamText refers to a signal
CallerAborts ==
  /\ ~scancel
  /\ scancel' = TRUE
  /\ UNCHANGED <<stext, sfail, rpc, rwritten, rreturn, rerror,
                 agentVars, orchVars, streamVars, adapterVars, pairVars>>

\* agent.run: const response = await agent(messages); a rejection goes to
\* the catch block, which logs the error and rethrows it
RunCall ==
  /\ rpc = "call"
  /\ spc = "settled"
  /\ IF soutcome = "resolved"
       THEN rpc' = "drain" /\ rerror' = rerror
       ELSE rpc' = "rejected" /\ rerror' = serror
  /\ UNCHANGED <<stext, sfail, scancel, rwritten, rreturn,
                 agentVars, orchVars, streamVars, adapterVars, pairVars>>

\* for await (const chunk of response.textStream) process.stdout.write(chunk)
RunWrite ==
  /\ rpc = "drain"
  /\ Len(rwritten) < Len(stext)
  /\ rwritten' = Append(rwritten, stext[Len(rwritten) + 1])
  /\ UNCHANGED <<stext, sfail, scancel, rpc, rreturn, rerror,
                 agentVars, orchVars, streamVars, adapterVars, pairVars>>

\* the value agent.run returns
RunValue ==
  [response |-> sresult, toolCalls |-> StreamToolCalls, toolResults |-> StreamToolResults]

\* an agent.run that returns without reading the text stream to its end
RunReturnsUndrained ==
  /\ rpc = "drain"
  /\ sfail = NoError
  /\ rreturn' = RunValue
  /\ rpc' = "resolved"
  /\ UNCHANGED <<stext, sfail, scancel, rwritten, rerror,
                 agentVars, orchVars, streamVars, adapterVars, pairVars>>

\* the loop ends when the stream has ended and every chunk was read; then
\* await response.toolCalls, await response.toolResults, return
RunReturns ==
  /\ rpc = "drain"
  /\ sfail = NoError
  /\ sstream.finished
  /\ Len(rwritten) = Len(stext)
  /\ rreturn' = RunValue
  /\ rpc' = "resolved"
  /\ UNCHANGED <<stext, sfail, scancel, rwritten, rerror,
                 agentVars, orchVars, streamVars, adapterVars, pairVars>>

\* reading the failed stream throws: the catch block rethrows the error
RunDrainThrows ==
  /\ rpc = "drain"
  /\ sfail # NoError
  /\ rpc' = "rejected"
  /\ rerror' = sfail
  /\ UNCHANGED <<stext, sfail, scancel, rwritten, rreturn,
                 agentVars, orchVars, streamVars, adapterVars, pairVars>>

RunStart(at) ==
  /\ stext = <<>>
  /\ sfail = NoError
  /\ scancel = FALSE
  /\ rpc = at
  /\ rwritten = <<>>
  /\ rreturn = Undefined
  /\ rerror = NoError

(* ------------------ streaming adapter: createAgent.run ---------------- *)
\* maxSteps: config.maxSteps ?? 3
AdapterBudget ==
  IF aconfig.maxSteps = 0 THEN DefaultAdapterMaxSteps ELSE aconfig.maxSteps

\* a chunk written to the data stream, and a step of a tool's execute
Chunk(type, id) == [kind |-> "chunk", type |-> type, id |-> id]
ToolEvent(type, id) == [kind |-> "event", type |-> type, id |-> id]

\* the chunks of the data stream, in the order they were written
AdapterChunks == SelectSeq(alog, LAMBDA e : e.kind = "chunk")

\* text parts the generation has produced so far
TextParts ==
  Len(SelectSeq(alog, LAMBDA e : e.type = "text"))
    + Len(SelectSeq(apending, LAMBDA part : part = "text"))

AdapterToolIds == 1..Len(atools)
AdapterToolsSettled == \A i \in AdapterToolIds : atools[i].st = "done"

\* the wrapped execute up to its await: the tool-start chunk, then the call
\* of the tool's execute
ToolStartEvents(i) == <<Chunk("tool-start", i), ToolEvent("execute", i)>>

\* the wrapped execute after the tool's execute returned: the tool-end
\* chunk, then return result
ToolReturnEvents(i) ==
  <<ToolEvent("resolved", i), Chunk("tool-end", i), ToolEvent("returned", i)>>

\* a catch block that reports the end of the tool before rethrowing
ToolThrowEventsWithEnd(i) ==
  <<ToolEvent("rejected", i), Chunk("tool-end", i), ToolEvent("rethrown", i)>>

\* the wrapped execute after the tool's execute threw: log, throw error
ToolThrowEvents(i) == <<ToolEvent("rejected", i), ToolEvent("rethrown", i)>>

\* streamText starts a model round-trip: the model may produce a text part
\* and requests tool calls. The parts of the earlier steps have been merged
\* by then: forwarding takes no input or output, a round-trip does
AdapterModelStep ==
  /\ apc = "gen"
  /\ astep < AdapterBudget
  /\ apending = <<>>
  /\ astep' = astep + 1
  /\ \E n \in 0..MaxParallel :
       /\ Len(atools) + n <= MaxCalls
       /\ atools' = atools \o [j \in 1..n |->
                                 [step |-> astep + 1, st |-> "pending", threw |-> FALSE]]
  /\ \E text \in BOOLEAN :
       apending' = IF text /\ TextParts < MaxChunks
                     THEN Append(apending, "text") ELSE apending
  /\ apc' = "step"
  /\ UNCHANGED <<aconfig, alog, agentVars, orchVars, streamVars, runVars, pairVars>>

\* wrappedTools[name].execute(args): writeData tool-start, tool.execute(args,
\* context); the engine calls the tools of a step in the order of the
\* model's tool calls
AdapterToolStart(i) ==
  /\ i \in AdapterToolIds
  /\ atools[i].st = "pending"
  /\ \A j \in 1..(i - 1) : atools[j].st # "pending"
  /\ atools' = [atools EXCEPT ![i].st = "running"]
  /\ alog' = alog \o ToolStartEvents(i)
  /\ UNCHANGED <<aconfig, apc, astep, apending,
                 agentVars, orchVars, streamVars, runVars, pairVars>>

\* the tool's execute returned: writeData tool-end, return result
AdapterToolReturns(i) ==
  /\ i \in AdapterToolIds
  /\ atools[i].st = "running"
  /\ atools' = [atools EXCEPT ![i].st = "done"]
  /\ alog' = alog \o ToolReturnEvents(i)
  /\ UNCHANGED <<aconfig, apc, astep, apending,
                 agentVars, orchVars, streamVars, runVars, pairVars>>

\* the tool's execute threw: the wrapper logs and rethrows, and the engine
\* sends the error as a part of the stream
AdapterToolThrows(i) ==
  /\ i \in AdapterToolIds
  /\ atools[i].st = "running"
  /\ atools' = [atools EXCEPT ![i].st = "done", ![i].threw = TRUE]
  /\ alog' = alog \o ToolThrowEvents(i)
  /\ apending' = Append(apending, "error")
  /\ UNCHANGED <<aconfig, apc, astep,
                 agentVars, orchVars, streamVars, runVars, pairVars>>

\* onStepFinish: writeData step-complete; another round-trip follows when
\* the step made tool calls and the budget lasts
AdapterStepFinish ==
  /\ apc = "step"
  /\ AdapterToolsSettled
  /\ alog' = Append(alog, Chunk("step-complete", astep))
  /\ apc' = IF astep < AdapterBudget /\ \E i \in AdapterToolIds : atools[i].step = astep
              THEN "gen" ELSE "finish"
  /\ UNCHANGED <<aconfig, astep, atools, apending,
                 agentVars, orchVars, streamVars, runVars, pairVars>>

\* onFinish: writeData agent-complete
AdapterFinish ==
  /\ apc = "finish"
  /\ alog' = Append(alog, Chunk("agent-complete", 0))
  /\ apc' = "finished"
  /\ UNCHANGED <<aconfig, astep, atools, apending,
                 agentVars, orchVars, streamVars, runVars, pairVars>>

\* a round-trip of the generation fails (an error of the provider): no further step
\* and no onFinish; the error is a part of the stream
AdapterStreamError ==
  /\ apc = "step"
  /\ AdapterToolsSettled
  /\ apending' = Append(apending, "error")
  /\ apc' = "failed"
  /\ UNCHANGED <<aconfig, astep, atools, alog,
                 agentVars, orchVars, streamVars, runVars, pairVars>>

\* result.mergeIntoDataStream(dataStream): the engine forwards the parts of
\* the generation to the data stream in their order; here a text part
AdapterMerge ==
  /\ apending # <<>>
  /\ Head(apending) = "text"
  /\ apending' = Tail(apending)
  /\ alog' = Append(alog, Chunk("text", Len(SelectSeq(alog, LAMBDA e : e.type = "text")) + 1))
  /\ UNCHANGED <<aconfig, apc, astep, atools,
                 agentVars, orchVars, streamVars, runVars, pairVars>>

\* an error part is forwarded through onError(error): dataStream?.writeData
\* of the error chunk. onError names dataStream, the parameter of execute,
\* outside execute: the chunk is written only in a build where that name
\* resolves to the stream of the run (aconfig.onErrorSeesStream)
AdapterOnError ==
  /\ apending # <<>>
  /\ Head(apending) = "error"
  /\ apending' = Tail(apending)
  /\ alog' = IF aconfig.onErrorSeesStream THEN Append(alog, Chunk("error", 0)) ELSE alog
  /\ UNCHANGED <<aconfig, apc, astep, atools,
                 agentVars, orchVars, streamVars, runVars, pairVars>>

AdapterStart(at) ==
  /\ apc = at
  /\ astep = 0
  /\ atools = <<>>
  /\ apending = <<>>
  /\ alog = <<>>

(* ---------------------- createAgent: two runs ------------------------- *)
Runs == {1, 2}

PairCallIds == 1..Len(pcalls)
PairKey(k) == cacheKey(pcalls[k].tool, pcalls[k].args)

\* toolResultCache.set(cacheKey, result) on the Map of one run
PairCacheSet(cache, key, value) ==
  [k \in DOMAIN cache \cup {key} |-> IF k = key THEN value ELSE cache[k]]

\* agent(messages, options): const toolResultCache = new Map(); the tools
\* are wrapped around that Map (the run has a trace client)
PairAgent(r) ==
  /\ pruns[r].st = "idle"
  /\ pruns' = [pruns EXCEPT ![r] = [st |-> "active", cache |-> <<>>]]
  /\ UNCHANGED <<pcalls, agentVars, orchVars, streamVars, runVars, adapterVars>>

\* the wrapped execute of run r up to its await: cache check on the run's
\* Map, start span, tool.execute
PairToolCall(r, toolName, args) ==
  /\ pruns[r].st = "active"
  /\ Len(pcalls) < MaxCalls
  /\ LET key == cacheKey(toolName, args)
         c == [run |-> r, tool |-> toolName, args |-> args, st |-> "done",
               hit |-> FALSE, executed |-> FALSE, n |-> 0, res |-> Undefined]
     IN IF key \in DOMAIN pruns[r].cache
          THEN pcalls' = Append(pcalls, [c EXCEPT !.hit = TRUE, !.res = pruns[r].cache[key]])
          ELSE \E k \in Recorded(1, backend) :
                 IF k = 0
                   THEN pcalls' = Append(pcalls,
                          [c EXCEPT !.res = safeTraceOperation(TRUE, Undefined, Undefined)])
                   ELSE pcalls' = Append(pcalls,
                          [c EXCEPT !.st = "running", !.executed = TRUE,
                                    !.n = Cardinality({ h \in PairCallIds : pcalls[h].executed }) + 1])
  /\ UNCHANGED <<pruns, agentVars, orchVars, streamVars, runVars, adapterVars>>

\* the underlying execute returns: toolResultCache.set on the Map of the
\* call's run
PairToolReturns(k) ==
  /\ k \in PairCallIds
  /\ pcalls[k].st = "running"
  /\ LET c == pcalls[k]
         value == ToolValue(c.tool, c.args, c.n)
     IN /\ pcalls' = [pcalls EXCEPT ![k] = [c EXCEPT !.st = "done", !.res = value]]
        /\ pruns' = [pruns EXCEPT ![c.run].cache = PairCacheSet(@, PairKey(k), value)]
  /\ UNCHANGED <<agentVars, orchVars, streamVars, runVars, adapterVars>>

\* the underlying execute throws: nothing is cached and the wrapper returns
\* its unassigned result
PairToolThrows(k) ==
  /\ k \in PairCallIds
  /\ pcalls[k].st = "running"
  /\ pcalls' = [pcalls EXCEPT ![k].st = "done"]
  /\ UNCHANGED <<pruns, agentVars, orchVars, streamVars, runVars, adapterVars>>

\* the run's agent() call settles; its Map is no longer reachable
PairSettles(r) ==
  /\ pruns[r].st = "active"
  /\ \A k \in PairCallIds : pcalls[k].run = r => pcalls[k].st = "done"
  /\ pruns' = [pruns EXCEPT ![r].st = "done"]
  /\ UNCHANGED <<pcalls, agentVars, orchVars, streamVars, runVars, adapterVars>>

PairStart ==
  /\ pruns = [r \in Runs |-> [st |-> "idle", cache |-> <<>>]]
  /\ pcalls = <<>>

StreamStart(at) ==
  /\ spc = at
  /\ strace = NoTrace
  /\ sgen = NotRun
  /\ sresult = Undefined
  /\ soutcome = "none"
  /\ serror = NoError
  /\ sflushes = 0
  /\ sstream = NoStream

OrchStart(at) ==
  /\ opc = At(IF at = "idle" THEN "none" ELSE "router", at)
  /\ route = Undefined
  /\ oresult = Undefined
  /\ invoked = <<>>
  /\ prompts = <<>>
  /\ stageOut = NoArray
  /\ routerOut = NoArray
  /\ oerror = NoError
  /\ olog = <<>>

\* agent.run, the streaming adapter and the pair of runs are not in progress
LaterIdle ==
  /\ RunStart("idle")
  /\ aconfig = [maxSteps |-> 0, onErrorSeesStream |-> FALSE]
  /\ AdapterStart("idle")
  /\ PairStart

Init ==
  /\ config \in [langfuse : BOOLEAN, trace : BOOLEAN, createNewTrace : BOOLEAN]
  /\ isServerless = "unread"
  /\ options \in [maxSteps : 0..MaxStepsOpt, requireStructuredOutput : BOOLEAN]
  /\ backend \in {"ok", "throws", "flaky"}
  /\ pc = "start"
  /\ trace = IF config.trace THEN "supplied" ELSE NoTrace
  /\ toolResultCache = <<>>
  /\ stepNo = 0
  /\ calls = <<>>
  /\ traceLog = <<>>
  /\ result = Undefined
  /\ response = Undefined
  /\ outcome = "none"
  /\ error = NoError
  /\ flushes = <<>>
  /\ OrchStart("idle")
  /\ sconfig = [langfuse |-> FALSE, maxSteps |-> 0]
  /\ StreamStart("idle")
  /\ LaterIdle

Next ==
  \/ CreateTrace
  \/ MainSpan
  \/ ModelStep
  \/ ModelFinal
  \/ BudgetReached
  \/ GenerationError
  \/ \E i \in 1..MaxCalls + 1 : ToolExecute(i)
  \/ \E i \in 1..MaxCalls + 1 : ToolReturns(i)
  \/ \E i \in 1..MaxCalls + 1 : ToolThrows(i)
  \/ PostGen
  \/ Catch
  \/ Finally

Spec == Init /\ [][Next]_vars

\* orchestrateAgents(userInput) alone; no createAgent run is in progress
InitOrch ==
  /\ config = [langfuse |-> FALSE, trace |-> FALSE, createNewTrace |-> FALSE]
  /\ isServerless = "unread"
  /\ options = [maxSteps |-> 0, requireStructuredOutput |-> FALSE]
  /\ backend = "ok"
  /\ pc = "idle"
  /\ trace = NoTrace
  /\ toolResultCache = <<>>
  /\ stepNo = 0
  /\ calls = <<>>
  /\ traceLog = <<>>
  /\ result = Undefined
  /\ response = Undefined
  /\ outcome = "none"
  /\ error = NoError
  /\ flushes = <<>>
  /\ OrchStart("invoke")
  /\ sconfig = [langfuse |-> FALSE, maxSteps |-> 0]
  /\ StreamStart("idle")
  /\ LaterIdle

NextOrch ==
  \/ \E stage \in Stages : Invoke(stage)
  \/ \E stage \in Stages : Drain(stage)
  \/ \E stage \in Stages : StageFails(stage)
  \/ Routed
  \/ \E stage \in Stages : StageResults(stage)

SpecOrch == InitOrch /\ [][NextOrch]_vars

\* one call of the agent createStreamingAgent(config) returns; no createAgent
\* run and no orchestration is in progress
InitStream ==
  /\ config = [langfuse |-> FALSE, trace |-> FALSE, createNewTrace |-> FALSE]
  /\ isServerless = "unread"
  /\ options = [maxSteps |-> 0, requireStructuredOutput |-> FALSE]
  /\ backend \in {"ok", "throws", "flaky"}
  /\ pc = "idle"
  /\ trace = NoTrace
  /\ toolResultCache = <<>>
  /\ stepNo = 0
  /\ calls = <<>>
  /\ traceLog = <<>>
  /\ result = Undefined
  /\ response = Undefined
  /\ outcome = "none"
  /\ error = NoError
  /\ flushes = <<>>
  /\ OrchStart("idle")
  /\ sconfig \in [langfuse : BOOLEAN, maxSteps : 0..MaxStepsOpt]
  /\ StreamStart("start")
  /\ LaterIdle

NextStream ==
  \/ StreamTrace
  \/ StreamText
  \/ StreamTextThrows
  \/ StreamFinally
  \/ StreamStep
  \/ StreamFinish

SpecStream == InitStream /\ [][NextStream]_vars

\* no createAgent run of the single-run specification is in progress
AgentIdle ==
  /\ config = [langfuse |-> FALSE, trace |-> FALSE, createNewTrace |-> FALSE]
  /\ isServerless = "unread"
  /\ options = [maxSteps |-> 0, requireStructuredOutput |-> FALSE]
  /\ pc = "idle"
  /\ trace = NoTrace
  /\ toolResultCache = <<>>
  /\ stepNo = 0
  /\ calls = <<>>
  /\ traceLog = <<>>
  /\ result = Undefined
  /\ response = Undefined
  /\ outcome = "none"
  /\ error = NoError
  /\ flushes = <<>>

\* agent.run(messages) of a streaming agent, with a caller that may trigger
\* its cancellation signal
InitRun ==
  /\ AgentIdle
  /\ backend \in {"ok", "throws", "flaky"}
  /\ OrchStart("idle")
  /\ sconfig \in [langfuse : BOOLEAN, maxSteps : 0..MaxStepsOpt]
  /\ StreamStart("start")
  /\ RunStart("call")
  /\ aconfig = [maxSteps |-> 0, onErrorSeesStream |-> FALSE]
  /\ AdapterStart("idle")
  /\ PairStart

NextRun ==
  \/ StreamTrace
  \/ StreamText
  \/ StreamTextThrows
  \/ StreamFinally
  \/ StreamStep
  \/ StreamFinish
  \/ StreamTextPart
  \/ StreamFails
  \/ CallerAborts
  \/ RunCall
  \/ RunWrite
  \/ RunReturns
  \/ RunDrainThrows

SpecRun == InitRun /\ [][NextRun]_vars

\* one run of the streaming adapter: the execute callback of
\* createDataStreamResponse has called streamText
InitAdapter ==
  /\ AgentIdle
  /\ backend = "ok"
  /\ OrchStart("idle")
  /\ sconfig = [langfuse |-> FALSE, maxSteps |-> 0]
  /\ StreamStart("idle")
  /\ RunStart("idle")
  /\ aconfig \in [maxSteps : 0..(MaxStepsOpt - 1), onErrorSeesStream : BOOLEAN]
  /\ AdapterStart("gen")
  /\ PairStart

NextAdapter ==
  \/ AdapterModelStep
  \/ \E i \in 1..MaxCalls : AdapterToolStart(i)
  \/ \E i \in 1..MaxCalls : AdapterToolReturns(i)
  \/ \E i \in 1..MaxCalls : AdapterToolThrows(i)
  \/ AdapterStepFinish
  \/ AdapterFinish
  \/ AdapterStreamError
  \/ AdapterOnError
  \/ AdapterMerge

SpecAdapter == InitAdapter /\ [][NextAdapter]_vars

\* two invocations of one agent function returned by createAgent, with a
\* trace client, one after the other or interleaved
InitPair ==
  /\ AgentIdle
  /\ backend \in {"ok", "throws", "flaky"}
  /\ OrchStart("idle")
  /\ sconfig = [langfuse |-> FALSE, maxSteps |-> 0]
  /\ StreamStart("idle")
  /\ RunStart("idle")
  /\ aconfig = [maxSteps |-> 0, onErrorSeesStream |-> FALSE]
  /\ AdapterStart("idle")
  /\ PairStart

NextPair ==
  \/ \E r \in Runs : PairAgent(r)
  \/ \E r \in Runs, t \in Tools, a \in ArgObjects : PairToolCall(r, t, a)
  \/ \E k \in 1..MaxCalls : PairToolReturns(k)
  \/ \E k \in 1..MaxCalls : PairToolThrows(k)
  \/ \E r \in Runs : PairSettles(r)

SpecPair == InitPair /\ [][NextPair]_vars

(* ------------------------------ claims -------------------------------- *)
CallKey(i) == cacheKey(calls[i].tool, calls[i].args)
CallIds == 1..Len(calls)
SinkConfigured == config.langfuse \/ config.trace
RunDone == pc = "done"

\* tool-execution spans the backend holds for call i
ToolSpans(i) ==
  Cardinality({ k \in 1..Len(traceLog) :
                  traceLog[k].name = "tool-execution" /\ traceLog[k].call = i })

\* C1: with a trace backend that throws on every method, a finished run has
\* not failed because of the backend, every tool call the model made was
\* executed, and the response is the one the run builds with no sink at all
\* (the response formatted over a cache that no wrapper ever filled).
C1_ThrowingSinkInvisible ==
  (RunDone /\ backend = "throws" /\ SinkConfigured) =>
     /\ error # "trace"
     /\ \A i \in CallIds : Settled(i) => calls[i].executed
     /\ outcome = "returned" => response = FormatResponse(result, <<>>)

\* C2: whenever the underlying execute of a wrapped tool threw, the wrapped
\* call failed towards the generation engine (it did not return normally).
C2_ToolErrorPropagates ==
  \A i \in CallIds :
    (calls[i].wrapped /\ calls[i].threw) => calls[i].rejected

\* C3: of two wrapped calls with identical tool and arguments made one after
\* the other (the first of the run for that key, and one of a later step),
\* with an underlying execute that does not throw, exactly the first invoked
\* the underlying execute, the second returned the first's result, and the
\* second call recorded no execution-start span.
C3_CacheIdempotence ==
  \A i, j \in CallIds :
    ( /\ calls[i].wrapped /\ calls[j].wrapped
      /\ Settled(i) /\ Settled(j)
      /\ calls[i].step < calls[j].step
      /\ CallKey(i) = CallKey(j)
      /\ \A h \in CallIds : CallKey(h) = CallKey(i) =>
           (calls[h].step >= calls[i].step /\ ~calls[h].threw) )
    => /\ calls[i].executed
       /\ ~calls[j].executed
       /\ calls[j].res = calls[i].res
       /\ pc = "gen" => ToolSpans(j) = 0

\* C4: under every interleaving of wrapped calls, two calls with the same
\* tool and arguments never both invoke the underlying execute (calls whose
\* execute threw aside: a failed execution is retried by design).
C4_AtMostOneExecution ==
  \A i, j \in CallIds :
    ( /\ i # j
      /\ calls[i].wrapped /\ calls[j].wrapped
      /\ CallKey(i) = CallKey(j)
      /\ ~calls[i].threw /\ ~calls[j].threw )
    => ~(calls[i].executed /\ calls[j].executed)

\* C5: a throwing execute leaves no cache entry (every cached key belongs to
\* a call whose execute returned), and a later wrapped call with identical
\* arguments that is not answered from the cache invokes execute again.
C5_FailureNotCachedAndRetried ==
  /\ \A key \in DOMAIN toolResultCache :
       \E i \in CallIds :
         CallKey(i) = key /\ calls[i].executed /\ Settled(i) /\ ~calls[i].threw
  /\ \A i, j \in CallIds :
       ( /\ calls[i].wrapped /\ calls[i].threw
         /\ calls[i].step < calls[j].step
         /\ CallKey(i) = CallKey(j)
         /\ Settled(j) /\ ~calls[j].hit )
       => calls[j].executed

\* C6: a wrapped call that is not answered from the cache invokes the
\* underlying execute whatever the backend does with the start span, and when
\* execute returns the wrapped call returns that result.
C6_StartSpanFailureHarmless ==
  \A i \in CallIds :
    (calls[i].wrapped /\ Settled(i) /\ ~calls[i].hit) =>
       /\ calls[i].executed
       /\ ~calls[i].threw =>
            calls[i].res = ToolValue(calls[i].tool, calls[i].args, calls[i].n)

\* C7: a run with no sink memoizes like a run with a working sink (a repeated
\* identical call of a later step does not execute again after a successful
\* first one), and a run with a working sink returns the response the run
\* with no sink returns for the same generation result.
C7_NoSinkSameAsWorkingSink ==
  /\ ~SinkConfigured =>
       \A i, j \in CallIds :
         ( /\ calls[i].step < calls[j].step
           /\ CallKey(i) = CallKey(j)
           /\ calls[i].executed /\ ~calls[i].threw )
         => ~calls[j].executed
  /\ (RunDone /\ SinkConfigured /\ backend = "ok" /\ outcome = "returned") =>
       response = FormatResponse(result, <<>>)

\* C8: no tool-execution span is ever recorded for a call that was answered
\* from the cache.
C8_NoSpanForCacheHit ==
  \A i \in CallIds : calls[i].hit => ToolSpans(i) = 0

\* the router stage is over and the switch has been entered
RoutingDone == oresult # Undefined
OrchDone == opc = At("none", "done")
ContentPipeline == <<"router", "research", "strategy", "formatter", "publisher">>

\* C9: when the router produced no tool output (no array, an empty array, or
\* a first entry without result), the route is {create_content, blog}, the
\* result carries that action and platform, the research stage is entered
\* next, and a run that completes has run the whole create_content pipeline.
C9_MissingRouteDefaults ==
  (RoutingDone /\ Falsy(FirstResult(routerOut))) =>
     /\ route = DefaultRoute
     /\ oresult.action = "create_content"
     /\ oresult.platform = "blog"
     /\ Len(invoked) >= 2 \/ opc = At("research", "invoke")
     /\ Len(invoked) >= 2 => invoked[2] = "research"
     /\ OrchDone => invoked = ContentPipeline

\* C9 witness: a completed run whose router produced no tool output
C9_Witness ==
  /\ OrchDone
  /\ routerOut = Array(<<>>)
  /\ invoked = ContentPipeline
  /\ oresult.action = "create_content"

ValidActions == {"create_strategy", "create_content", "manage_content"}

\* C10: when the router's first tool result is present but its action is
\* missing or not a known action, the orchestrator proceeds as for
\* create_content: the result's action is create_content and a run that
\* completes has run research, strategy, formatter and publisher.
C10_MalformedActionDefaults ==
  ( /\ RoutingDone
    /\ ~Falsy(FirstResult(routerOut))
    /\ Get(FirstResult(routerOut), "action") \notin ValidActions )
  => /\ oresult.action = "create_content"
     /\ OrchDone => invoked = ContentPipeline

IsPrefix(a, b) == Len(a) <= Len(b) /\ SubSeq(b, 1, Len(a)) = a
Last(seq) == seq[Len(seq)]
RouteAction == Get(route, "action")

\* the stage invoked before stage in the create_content pipeline
Previous(stage) ==
  CASE stage = "research" -> "router"
    [] stage = "strategy" -> "research"
    [] stage = "formatter" -> "strategy"
    [] stage = "publisher" -> "formatter"
    [] OTHER -> "none"

\* stages that were invoked and have neither resolved nor thrown
InFlight ==
  { st \in Stages :
      /\ \E k \in 1..Len(olog) : olog[k].ev = "invoked" /\ olog[k].stage = st
      /\ ~\E k \in 1..Len(olog) : olog[k].ev \in {"resolved", "threw"} /\ olog[k].stage = st }

\* C11: on the create_content path (and before the route is known) the
\* stages invoked so far are a prefix of router, research, strategy,
\* formatter, publisher, so each is invoked at most once; a stage after the
\* router is invoked only directly after the previous stage's text stream
\* was drained and its tool results resolved; at most one stage is in flight.
C11_SequentialStages ==
  (~RoutingDone \/ RouteAction = "create_content") =>
     /\ IsPrefix(invoked, ContentPipeline)
     /\ \A k \in 1..Len(olog) :
          (olog[k].ev = "invoked" /\ olog[k].stage # "router") =>
             /\ k > 3
             /\ olog[k - 1] = Event("resolved", Previous(olog[k].stage), NoError)
             /\ olog[k - 2] = Event("drained", Previous(olog[k].stage), NoError)
             /\ olog[k - 3] = Event("invoked", Previous(olog[k].stage), NoError)
     /\ Cardinality(InFlight) <= 1

\* C11 witness: a completed create_content run chosen by the router, all
\* five stages invoked, drained and resolved
C11_Witness ==
  /\ OrchDone
  /\ ~Falsy(FirstResult(routerOut))
  /\ RouteAction = "create_content"
  /\ invoked = ContentPipeline
  /\ Len(olog) = 15

StrategyPipeline == <<"router", "strategy">>
Placeholder == [message |-> "Content management workflow not implemented yet"]

\* C12: after routing, create_strategy invokes the strategy stage and no
\* other (a completed run invoked exactly router and strategy), and
\* manage_content invokes no stage at all: the run is complete without an
\* error and its result carries the not-implemented placeholder.
C12_StagesFixedByAction ==
  RoutingDone =>
     /\ RouteAction = "create_strategy" =>
          /\ IsPrefix(invoked, StrategyPipeline)
          /\ OrchDone => invoked = StrategyPipeline
     /\ RouteAction = "manage_content" =>
          /\ OrchDone
          /\ invoked = <<"router">>
          /\ oerror = NoError
          /\ GetObj(oresult, "strategy") = Placeholder

\* C12 witness: a completed create_strategy run
C12_Witness ==
  /\ OrchDone
  /\ RouteAction = "create_strategy"
  /\ invoked = StrategyPipeline
  /\ "strategy" \in DOMAIN oresult

\* C13: when a stage threw, nothing happened afterwards (the throw is the
\* last event: no later stage was invoked), the run has failed and not
\* returned a result, and it rejects with the very failure the stage threw.
C13_StageFailurePropagates ==
  /\ \A k \in 1..Len(olog) :
       olog[k].ev = "threw" =>
          /\ k = Len(olog)
          /\ olog[k].stage = Last(invoked)
          /\ opc = At("none", "failed")
          /\ oerror = olog[k].cause
  /\ opc = At("none", "failed") => (olog # <<>> /\ Last(olog).ev = "threw")

\* C13 witness: the strategy stage of a create_content run threw after the
\* research stage had written its field
C13_Witness ==
  /\ opc = At("none", "failed")
  /\ invoked = <<"router", "research", "strategy">>
  /\ Last(olog).stage = "strategy"
  /\ "references" \in DOMAIN oresult
  /\ oerror \in Causes

\* C14: the error of a failed run tells the failing stage: no other stage,
\* failing with whatever cause, surfaces the same error.
C14_ErrorNamesStage ==
  (opc = At("none", "failed") /\ olog # <<>>) =>
     \A st \in Stages \ {Last(olog).stage} :
       \A cause \in Causes : Surfaced(st, cause) # oerror

HasField(obj, field) == obj # Undefined /\ obj # Null /\ field \in DOMAIN obj

\* C15: on the create_content path the tone member of the formatter's JSON
\* prompt is the tone of the strategy stage's first tool result when that
\* result has a tone field, and "professional" when it has none.
C15_FormatterTone ==
  (RouteAction = "create_content" /\ Len(prompts) >= 4) =>
     LET strategy == GetObj(oresult, "strategy")
         tone == prompts[4][6]
     IN IF HasField(strategy, "tone")
          THEN tone = strategy.tone
          ELSE tone = "professional"

ResultFields == {"references", "strategy", "formattedContent", "publishedContent"}

\* C16: the result object starts with the action and platform of the route;
\* every later change of it is made by the stage whose tool results have
\* resolved, adds exactly that stage's field, which was not written before,
\* and leaves every other field, action and platform included, as it was.
C16_OneFieldPerStage ==
  [][ /\ (oresult = Undefined /\ oresult' # Undefined) =>
           /\ {"action", "platform"} \subseteq DOMAIN oresult'
           /\ DOMAIN oresult' \subseteq {"action", "platform", "strategy"}
           /\ oresult'.action = Get(route', "action")
           /\ oresult'.platform = Get(route', "platform")
      /\ (oresult # Undefined /\ oresult' # oresult) =>
           \E st \in Stages \ {"router"} :
             /\ opc = At(st, "results")
             /\ FieldOf(st) \notin DOMAIN oresult
             /\ DOMAIN oresult' = DOMAIN oresult \cup {FieldOf(st)}
             /\ \A f \in DOMAIN oresult : oresult'[f] = oresult[f] ]_vars

\* C16 witness: a completed create_content run in which all four stages
\* wrote their field
C16_Witness ==
  /\ OrchDone
  /\ DOMAIN oresult = {"action", "platform"} \cup ResultFields
  /\ oresult.references # Undefined
  /\ oresult.publishedContent # Undefined

\* C17: a run with requireStructuredOutput that returned, and whose
\* generation ended with a tool call, returns a structuredOutput equal to
\* the argument object of the last tool call of the run.
C17_StructuredOutputIsFinalArgs ==
  ( /\ RunDone /\ outcome = "returned"
    /\ options.requireStructuredOutput
    /\ result.toolCalls # <<>> )
  => response.structuredOutput = JsObject(calls[Last(result.toolCalls)].args)

\* the run created the trace it uses, instead of using a supplied one
OwnsTrace == CreatesTrace /\ trace = "new"

\* C18: at the end of a run a flush has been attempted if and only if the
\* run created its own trace.
C18_FlushIffOwnsTrace ==
  RunDone => ((flushes # <<>>) <=> OwnsTrace)

\* the errors generateText rejects with: a failed round-trip, a failed tool
EngineErrors == {"generation", "tool"}

\* C19: when the generation engine threw, the catch block leads to the
\* finally block with the caught error still the run's error, the run
\* marked as rejecting and nothing returned, whatever the backend did with
\* the error span (with a working backend the span is recorded); the finally
\* block changes neither the error nor the rejection.
C19_GenerationErrorRethrown ==
  [][ /\ (pc = "catch" /\ error \in EngineErrors) =>
           /\ pc' = "finally"
           /\ error' = error
           /\ outcome' = "threw"
           /\ response' = Undefined
           /\ (trace # NoTrace /\ backend = "ok") =>
                (traceLog' = Append(traceLog, Entry("span", "agent-error", 0)))
      /\ (pc = "finally" /\ error \in EngineErrors) =>
           /\ pc' = "done"
           /\ error' = error
           /\ outcome' = "threw"
           /\ response' = Undefined ]_vars

\* C19 witness: a finished run whose generation failed while the backend
\* refused the error span
C19_Witness ==
  /\ RunDone
  /\ error = "generation"
  /\ outcome = "threw"
  /\ trace # NoTrace
  /\ backend = "throws"
  /\ traceLog = <<>>

StreamSettled == spc = "settled"
InstrumentationErrors == {"trace", "flush"}

\* C20: a settled call of a streaming agent with a langfuse sink went through
\* the generation whatever langfuse.trace() did, resolved with the engine's
\* result when the generation succeeded, rejected with the generation's
\* error when it failed, and never rejects with an instrumentation error.
C20_StreamingSinkFailuresCaught ==
  (StreamSettled /\ sconfig.langfuse) =>
     /\ sgen.kind # "none"
     /\ sgen.kind = "returned" => (soutcome = "resolved" /\ sresult = sgen.value)
     /\ sgen.kind = "threw" => (soutcome = "rejected" /\ serror = sgen.error)
     /\ serror \notin InstrumentationErrors

\* C24: the streaming agent makes at most maxSteps model round-trips, and at
\* most three when maxSteps is not configured, as createAgent does.
C24_DefaultBudgetIsThree ==
  sstream.step <= (IF sconfig.maxSteps = 0 THEN DefaultMaxSteps ELSE sconfig.maxSteps)

\* C25: of two wrapped calls of the same tool whose argument objects hold the
\* same keys and values, in whatever key order, made one after the other,
\* the second is a cache hit once the first has executed and returned: it
\* does not invoke the underlying execute again.
C25_KeyOrderIrrelevant ==
  \A i, j \in CallIds :
    ( /\ calls[i].wrapped /\ calls[j].wrapped
      /\ Settled(i) /\ Settled(j)
      /\ calls[i].step < calls[j].step
      /\ calls[i].tool = calls[j].tool
      /\ ArgValue(calls[i].args) = ArgValue(calls[j].args)
      /\ calls[i].executed /\ ~calls[i].threw )
    => (calls[j].hit /\ ~calls[j].executed)

\* C29: the result of a run in unstructured mode reports, for every tool call
\* of the run whose execute returned, an entry with that call's tool and
\* arguments whose toolResults is the value execute returned for the call.
C29_ResultsAreExecuteResults ==
  (RunDone /\ outcome = "returned" /\ ~options.requireStructuredOutput) =>
    \A i \in CallIds :
      (calls[i].executed /\ ~calls[i].threw) =>
        LET content == response.messages[1].content
        IN \E k \in 1..Len(content) :
             /\ content[k].type = "tool_call"
             /\ content[k].toolName = calls[i].tool
             /\ content[k].args = calls[i].args
             /\ content[k].toolResults = calls[i].res

\* C28: a finished createAgent run with a langfuse client that was serverless
\* or created its own trace has flushed the client exactly once, on the
\* returning and on the throwing path alike, and the flush left the outcome
\* of the run as the try and catch blocks made it.
C28_FlushOnEveryExitPath ==
  (RunDone /\ config.langfuse /\ (isServerless = "yes" \/ OwnsTrace)) =>
     /\ Len(SelectSeq(flushes, LAMBDA f : f = "langfuse")) = 1
     /\ outcome = "returned" => (error = NoError /\ response # Undefined)
     /\ outcome = "threw" => (error # NoError /\ response = Undefined)

\* C21: in the chunk sequence of a run of the streaming adapter there is at
\* most one agent-complete chunk, no text, tool-start, tool-end or
\* step-complete chunk follows it, and the step-complete chunks appear in
\* the order of their steps.
C21_AgentCompleteLast ==
  LET ch == AdapterChunks
  IN /\ Cardinality({ k \in 1..Len(ch) : ch[k].type = "agent-complete" }) <= 1
     /\ \A k, m \in 1..Len(ch) :
          (k < m /\ ch[k].type = "agent-complete") => ch[m].type \notin {"text", "tool-start", "tool-end", "step-complete"}
     /\ \A k, m \in 1..Len(ch) :
          (k < m /\ ch[k].type = "step-complete" /\ ch[m].type = "step-complete")
            => ch[k].id < ch[m].id

AdapterAt(type, i) ==
  { k \in 1..Len(alog) : alog[k].type = type /\ alog[k].id = i }

Before(earlier, later) == \A k \in later : \E h \in earlier : h < k

\* C30: for every tool invocation of the adapter, tool-start is written
\* before the tool's execute is called; tool-end is written only after
\* execute returned and before the wrapped call returns, and every wrapped
\* call that returns has written it; when execute threw, no tool-end is
\* written for the invocation and the error is rethrown.
C30_ToolChunksBracketExecute ==
  \A i \in AdapterToolIds :
    LET started == AdapterAt("tool-start", i)
        called == AdapterAt("execute", i)
        resolved == AdapterAt("resolved", i)
        rejected == AdapterAt("rejected", i)
        ended == AdapterAt("tool-end", i)
        returned == AdapterAt("returned", i)
    IN /\ Before(started, called)
       /\ Before(resolved, ended)
       /\ Before(ended, returned)
       /\ Cardinality(started) <= 1
       /\ Cardinality(ended) <= 1
       /\ rejected # {} =>
            /\ ended = {}
            /\ returned = {}
            /\ AdapterAt("rethrown", i) # {}

\* C30 witness: one invocation returned and another one threw
C30_Witness ==
  \E i, j \in AdapterToolIds :
    /\ AdapterAt("returned", i) # {}
    /\ AdapterAt("rethrown", j) # {}

\* C23: agent.run writes the chunks of the text stream in their order; it
\* resolves only when the stream has ended and every chunk was written, with
\* the response of its agent call and the tool calls and results of the
\* stream's last step; it rejects with the error of the agent call when that
\* call rejected, and with the stream's error when reading the stream failed.
C23_RunDrainsThenReturns ==
  /\ IsPrefix(rwritten, stext)
  /\ rpc = "resolved" =>
       /\ sstream.finished
       /\ rwritten = stext
       /\ soutcome = "resolved" /\ sfail = NoError
       /\ rreturn = [response |-> sresult, toolCalls |-> StreamToolCalls,
                     toolResults |-> StreamToolResults]
  /\ rpc = "rejected" =>
       /\ rreturn = Undefined
       /\ soutcome = "rejected" => rerror = serror
       /\ soutcome = "resolved" => (sfail # NoError /\ rerror = sfail)
  /\ (soutcome = "rejected" /\ rpc # "call") => rpc = "rejected"

\* C23 witness: a run that resolved after writing two chunks, with the tool
\* calls of a last step that made some
C23_Witness ==
  /\ rpc = "resolved"
  /\ Len(rwritten) >= 2
  /\ rreturn.toolCalls # <<>>

\* C27: once the caller has triggered its cancellation signal, the stream of
\* the run starts no further model step.
C27_CancellationStopsRun ==
  [][scancel => (sstream.step' = sstream.step)]_vars

\* C26: a wrapped call of one run is a cache hit only after a call with the
\* same key of the same run executed; and when one run has cached a result,
\* the other run's first call for the same key executes the underlying tool.
C26_CachePerRun ==
  /\ \A k \in PairCallIds :
       pcalls[k].hit =>
         \E h \in 1..(k - 1) :
           /\ pcalls[h].run = pcalls[k].run
           /\ PairKey(h) = PairKey(k)
           /\ pcalls[h].executed
  /\ \A h, k \in PairCallIds :
       ( /\ h < k
         /\ pcalls[h].run # pcalls[k].run
         /\ PairKey(h) = PairKey(k)
         /\ pcalls[h].executed /\ pcalls[h].st = "done" /\ pcalls[h].res # Undefined
         /\ \A g \in 1..(k - 1) :
              pcalls[g].run = pcalls[k].run => PairKey(g) # PairKey(k) )
       => (~pcalls[k].hit /\ pcalls[k].executed)

====
